---- MODULE Spec2Model ----
(***************************************************************************)
(* A model of utils.py: the three evaluation helpers of the part-number    *)
(* classifier.                                                             *)
(*                                                                         *)
(*   cross_category_bleeding          the row-normalised confusion matrix  *)
(*   graphviz_cross_category_diagram  the matrix as a directed graph       *)
(*   char_by_char_classification_plot the classifier on growing prefixes   *)
(*                                                                         *)
(* Arrays keep the 0-based indices of the source (functions over 0..C-1);  *)
(* Python lists that are only walked or appended to are sequences.  The    *)
(* quotient v/np.sum(a) is an exact fraction [num, den]: IEEE rounding of  *)
(* the quotient is outside the model, so "sums to 1" below is the exact    *)
(* sum, which the floats meet within their tolerance.  np.stack is taken   *)
(* to stack the rows its generator yields, in order.                       *)
(***************************************************************************)
EXTENDS Integers, Sequences, FiniteSets, TLC

VARIABLES
    pc,            \* the position in the function that is running
    err,           \* the exception that ended the call, "" when none
    calls,         \* the arguments of the model.predict calls made so far
    \* cross_category_bleeding
    model,         \* the classifier: input id -> probability vector
    x_test,        \* the test inputs
    y_test,        \* the test labels: [shape |-> <<n, C>>, data |-> the rows]
    batch_size,    \* the batch_size argument
    preds,         \* model.predict(x_test)
    cat_count,     \* np.shape(y_test)[1]
    r,             \* the raw count matrix
    k,             \* how many zip items the loop has consumed
    result,        \* the matrix returned
    runs,          \* the calls already completed on the same arguments
    \* graphviz_cross_category_diagram
    res_matrix,    \* the matrix to draw
    class_labels,  \* the display labels
    graph,         \* the Digraph: [nodes |-> ..., edges |-> ...] in emission order
    true_c,        \* the row the outer loop is at
    \* char_by_char_classification_plot
    partnum,       \* the display characters of the part number
    x,             \* the encoded input sequence
    x_steps,       \* the prefixes of x to classify
    step_preds,    \* the rows recorded so far
    plot           \* the table handed to DataFrame.plot.line and its xticks

bleedVars == <<model, x_test, y_test, batch_size, preds, cat_count, r, k,
               result, runs>>

graphVars == <<res_matrix, class_labels, graph, true_c>>

plotVars == <<partnum, x, x_steps, step_preds, plot>>

vars == <<pc, err, calls, bleedVars, graphVars, plotVars>>

----------------------------------------------------------------------------
(* Bounds of the model. *)

\* The label array has at most MaxCat columns (categories).
MaxCat == 2

\* The test set has at most MaxExamples examples.
MaxExamples == 4

\* The label array has at most MaxSize entries (examples times categories).
MaxSize == 8

\* The values a label vector or a probability vector holds: enough for
\* one-hot vectors, all-zero vectors and ties of the maximum (any non-empty
\* set of indices is the set of maxima of some vector over them).
Vals == {0, 1}

\* The batch sizes a caller passes: the first call passes the largest, a
\* second call on the same arguments any other.
BatchSizes == {1, 32}

----------------------------------------------------------------------------
(* Values. *)

Range(n) == 0 .. (n - 1)

\* A vector of n values, indexed from 0 like an ndarray.
Vectors(n) == [Range(n) -> Vals]

Zero == [num |-> 0, den |-> 1]

\* v / s of two floats holding the integers v and s; numpy yields inf or nan
\* (and a RuntimeWarning) when s is 0.
Divide(v, s) == IF s = 0 THEN [num |-> v, den |-> 0] ELSE [num |-> v, den |-> s]

RECURSIVE SumTo(_, _)
\* a[0] + ... + a[n-1]
SumTo(a, n) == IF n = 0 THEN 0 ELSE SumTo(a, n - 1) + a[n - 1]

\* np.sum(a)
NpSum(a) == SumTo(a, Cardinality(DOMAIN a))

RECURSIVE ArgmaxLastFrom(_, _, _)
ArgmaxLastFrom(v, i, best) ==
    IF i >= Cardinality(DOMAIN v) THEN best
    ELSE ArgmaxLastFrom(v, i + 1, IF v[i] >= v[best] THEN i ELSE best)

\* Argmax with ties going to the highest index.
ArgmaxLast(v) == ArgmaxLastFrom(v, 1, 0)

RECURSIVE ArgmaxFrom(_, _, _)
\* The scan of np.argmax: best is the index of the largest value among
\* v[0..i-1]; a later value replaces it only when strictly larger.
ArgmaxFrom(v, i, best) ==
    IF i >= Cardinality(DOMAIN v) THEN best
    ELSE ArgmaxFrom(v, i + 1, IF v[i] > v[best] THEN i ELSE best)

\* np.argmax(v) of a non-empty vector
Argmax(v) == ArgmaxFrom(v, 1, 0)

\* Zeros as np.ones((n, n)).
Ones(n) == [i \in Range(n) |-> [j \in Range(n) |-> 1]]

\* np.zeros((n, n))
Zeros(n) == [i \in Range(n) |-> [j \in Range(n) |-> 0]]

\* r.flatten(): row-major
Flatten(m, n) == [idx \in Range(n * n) |-> m[idx \div n][idx % n]]

\* np.split(flat, n) of n * n values: n chunks of n
Split(flat, n) == [i \in Range(n) |-> [j \in Range(n) |-> flat[i * n + j]]]

\* NormalizeRow dividing by the length of the row.
NormalizeRowByLength(a) ==
    [j \in DOMAIN a |-> IF a[j] # 0 THEN Divide(a[j], Cardinality(DOMAIN a)) ELSE Zero]

\* NormalizeRow without the "if v" guard.
NormalizeRowUnguarded(a) == [j \in DOMAIN a |-> Divide(a[j], NpSum(a))]

\* [v/np.sum(a) if v else 0 for v in a]
NormalizeRow(a) ==
    [j \in DOMAIN a |-> IF a[j] # 0 THEN Divide(a[j], NpSum(a)) ELSE Zero]

\* np.stack(normalised rows of np.split(r.flatten(), cat_count))
Normalize(m, n) ==
    LET rows == Split(Flatten(m, n), n)
    IN  [i \in Range(n) |-> NormalizeRow(rows[i])]

\* Predict answering for the first batch only.
PredictFirstBatch(mdl, xs) ==
    [i \in 1 .. (IF Len(xs) < batch_size THEN Len(xs) ELSE batch_size) |-> mdl[xs[i]]]

\* model.predict(xs): one probability vector per input
Predict(mdl, xs) == [i \in 1 .. Len(xs) |-> mdl[xs[i]]]

\* Increment with the indices swapped.
IncrementTransposed(m, i, j) == [m EXCEPT ![j][i] = @ + 1]

\* Increment adding 2.
IncrementTwice(m, i, j) == [m EXCEPT ![i][j] = @ + 2]

\* r[class_being_tested][class_predicted] += 1
Increment(m, i, j) == [m EXCEPT ![i][j] = @ + 1]

----------------------------------------------------------------------------
(* cross_category_bleeding(model, x_test, y_test, batch_size) *)

\* The shapes of y_test: n examples over C categories.
Shapes ==
    {s \in (0 .. MaxExamples) \X (0 .. MaxCat) : s[1] * s[2] <= MaxSize}

\* The variables of the two other functions while this one runs.
GraphIdle ==
    /\ res_matrix = <<>>
    /\ class_labels = <<>>
    /\ graph = [nodes |-> <<>>, edges |-> <<>>]
    /\ true_c = 0

PlotIdle ==
    /\ partnum = <<>>
    /\ x = <<>>
    /\ x_steps = <<>>
    /\ step_preds = <<>>
    /\ plot = <<>>

BleedIdle ==
    /\ model = <<>>
    /\ x_test = <<>>
    /\ y_test = [shape |-> <<0, 0>>, data |-> <<>>]
    /\ batch_size = 1
    /\ preds = <<>>
    /\ cat_count = 0
    /\ r = <<>>
    /\ k = 0
    /\ result = <<>>
    /\ runs = <<>>

BleedInit ==
    /\ pc = "bleed"
    /\ err = ""
    /\ calls = <<>>
    /\ \E s \in Shapes :
         /\ x_test = [i \in 1 .. s[1] |-> i]
         /\ \E d \in [1 .. s[1] -> Vectors(s[2])] :
              y_test = [shape |-> s, data |-> d]
         /\ model \in [1 .. s[1] -> Vectors(s[2])]
    /\ batch_size = CHOOSE b \in BatchSizes : \A c \in BatchSizes : c <= b
    /\ preds = <<>>
    /\ cat_count = 0
    /\ r = <<>>
    /\ k = 0
    /\ result = <<>>
    /\ runs = <<>>
    /\ GraphIdle
    /\ PlotIdle

\* Lines 6-8: predict the whole test set, read the category count, zero r.
BleedPredict ==
    /\ pc = "bleed"
    /\ preds' = Predict(model, x_test)
    /\ calls' = Append(calls, x_test)
    /\ cat_count' = y_test.shape[2]
    /\ r' = Zeros(y_test.shape[2])
    /\ k' = 0
    /\ pc' = "loop"
    /\ UNCHANGED <<err, model, x_test, y_test, batch_size, result, runs,
                   graphVars, plotVars>>

\* Lines 9-12: one iteration of the loop over zip(x_test, y_test, preds).
BleedCount ==
    /\ pc = "loop"
    /\ k < Len(x_test) /\ k < Len(y_test.data) /\ k < Len(preds)
    /\ cat_count > 0
    /\ LET y == y_test.data[k + 1]
           pred == preds[k + 1]
           class_being_tested == Argmax(y)
           class_predicted == Argmax(pred)
       IN  r' = Increment(r, class_being_tested, class_predicted)
    /\ k' = k + 1
    /\ UNCHANGED <<pc, err, calls, model, x_test, y_test, batch_size, preds,
                   cat_count, result, runs, graphVars, plotVars>>

\* Line 10 on a label vector with no entries: np.argmax raises ValueError.
BleedArgmaxFails ==
    /\ pc = "loop"
    /\ k < Len(x_test) /\ k < Len(y_test.data) /\ k < Len(preds)
    /\ cat_count = 0
    /\ pc' = "failed"
    /\ err' = "ValueError"
    /\ UNCHANGED <<calls, bleedVars, graphVars, plotVars>>

\* Line 16 when the zip is exhausted: normalise each row and return.
BleedNormalize ==
    /\ pc = "loop"
    /\ ~(k < Len(x_test) /\ k < Len(y_test.data) /\ k < Len(preds))
    /\ cat_count > 0
    /\ result' = Normalize(r, cat_count)
    /\ pc' = "done"
    /\ UNCHANGED <<err, calls, model, x_test, y_test, batch_size, preds,
                   cat_count, r, k, runs, graphVars, plotVars>>

\* Line 16 with cat_count = 0: np.split computes N % sections with sections = 0.
BleedSplitFails ==
    /\ pc = "loop"
    /\ ~(k < Len(x_test) /\ k < Len(y_test.data) /\ k < Len(preds))
    /\ cat_count = 0
    /\ pc' = "failed"
    /\ err' = "ZeroDivisionError"
    /\ UNCHANGED <<calls, bleedVars, graphVars, plotVars>>

BleedNext ==
    \/ BleedPredict
    \/ BleedCount
    \/ BleedArgmaxFails
    \/ BleedNormalize
    \/ BleedSplitFails

SpecBleed == BleedInit /\ [][BleedNext]_vars

\* A second call on the same classifier and test set, with another batch_size:
\* the completed call is kept so that the two can be compared.
BleedRerun ==
    /\ pc = "done"
    /\ runs = <<>>
    /\ runs' = <<[batch_size |-> batch_size, result |-> result, calls |-> calls]>>
    /\ \E b \in BatchSizes \ {batch_size} : batch_size' = b
    /\ pc' = "bleed"
    /\ calls' = <<>>
    /\ preds' = <<>>
    /\ cat_count' = 0
    /\ r' = <<>>
    /\ k' = 0
    /\ result' = <<>>
    /\ UNCHANGED <<err, model, x_test, y_test, graphVars, plotVars>>

BatchNext ==
    \/ BleedPredict
    \/ BleedCount
    \/ BleedArgmaxFails
    \/ BleedNormalize
    \/ BleedSplitFails
    \/ BleedRerun

SpecBatch == BleedInit /\ [][BatchNext]_vars

----------------------------------------------------------------------------
(* graphviz_cross_category_diagram(res_matrix, class_labels=[]) *)

\* The matrix has at most MaxDim rows and columns, the label list at most
\* MaxDim labels.
MaxDim == 2

\* The entries a matrix holds: a negative value, zero and 1.0.
EntryVals == {[num |-> -1, den |-> 2], [num |-> 0, den |-> 1], [num |-> 1, den |-> 1]}

LabelNames == {"resistor", "capacitor"}

\* label numbering the placeholders from 1.
labelFromOne(c) ==
    IF Len(class_labels) > c THEN class_labels[c + 1]
    ELSE "Category " \o ToString(c + 1)

\* class_labels[c] if len(class_labels) > c else 'Category {}'.format(c)
label(c) ==
    IF Len(class_labels) > c THEN class_labels[c + 1]
    ELSE "Category " \o ToString(c)

\* 'C{}'.format(c)
node_name(c) == "C" \o ToString(c)

\* res_matrix[true_c][pred_c] * 100.0
Acc(e) == [num |-> e.num * 100, den |-> e.den]

\* Positive as acc >= 0.
NotNegative(a) == a.num >= 0

\* acc > 0
Positive(a) == a.num > 0

\* The three digits after the point.
Digits3(t) ==
    IF t < 10 THEN "00" \o ToString(t)
    ELSE IF t < 100 THEN "0" \o ToString(t)
    ELSE ToString(t)

\* '{:.3f}%'.format(acc) of a positive acc: the thousandths nearest to acc,
\* a tie going to the even one.
Format3(a) ==
    LET q == (a.num * 1000) \div a.den
        rem2 == 2 * ((a.num * 1000) % a.den)
        t == IF rem2 > a.den \/ (rem2 = a.den /\ q % 2 = 1) THEN q + 1 ELSE q
    IN  ToString(t \div 1000) \o "." \o Digits3(t % 1000) \o "%"

RECURSIVE RowEdges(_, _, _)
\* Lines 25-29: the edges the inner loop emits for row tc, from column pc0 on.
RowEdges(m, tc, pc0) ==
    IF pc0 >= Cardinality(DOMAIN m[tc]) THEN <<>>
    ELSE LET acc == Acc(m[tc][pc0])
         IN  (IF Positive(acc)
              THEN <<[tail |-> node_name(tc), head |-> node_name(pc0),
                      label |-> Format3(acc)]>>
              ELSE <<>>) \o RowEdges(m, tc, pc0 + 1)

RECURSIVE SeqsUpTo(_, _)
\* The sequences over S of length at most n.
SeqsUpTo(S, n) ==
    IF n = 0 THEN {<<>>}
    ELSE LET shorter == SeqsUpTo(S, n - 1)
         IN  shorter \cup {Append(q, e) : q \in shorter, e \in S}

GraphInit ==
    /\ pc = "graph"
    /\ err = ""
    /\ calls = <<>>
    /\ \E c \in 0 .. MaxDim : res_matrix \in [Range(c) -> [Range(c) -> EntryVals]]
    /\ class_labels \in SeqsUpTo(LabelNames, MaxDim)
    /\ graph = [nodes |-> <<>>, edges |-> <<>>]
    /\ true_c = 0
    /\ BleedIdle
    /\ PlotIdle

\* Lines 22-29: one iteration of the outer loop: the node of the row, then
\* the edges of the row.
GraphRow ==
    /\ pc = "graph"
    /\ true_c < Cardinality(DOMAIN res_matrix)
    /\ graph' = [nodes |-> Append(graph.nodes,
                                  [name |-> node_name(true_c), label |-> label(true_c)]),
                 edges |-> graph.edges \o RowEdges(res_matrix, true_c, 0)]
    /\ true_c' = true_c + 1
    /\ UNCHANGED <<pc, err, calls, res_matrix, class_labels, bleedVars, plotVars>>

\* Line 30
GraphReturn ==
    /\ pc = "graph"
    /\ true_c >= Cardinality(DOMAIN res_matrix)
    /\ pc' = "done"
    /\ UNCHANGED <<err, calls, graphVars, bleedVars, plotVars>>

GraphNext ==
    \/ GraphRow
    \/ GraphReturn

SpecGraph == GraphInit /\ [][GraphNext]_vars

----------------------------------------------------------------------------
(* char_by_char_classification_plot(model, partnum, x) *)

\* x and partnum have at most MaxLen elements.
MaxLen == 3

\* The encoded characters x holds.
Symbols == {1, 2}

\* The display characters partnum holds.
Chars == {"R", "7"}

\* The global class_names the function reads: it is defined outside utils.py.
class_names == <<"resistor", "capacitor">>

\* Prefixes up to the whole of xs: range(1, len(x) + 1).
PrefixesToEnd(xs) == [i \in 1 .. Len(xs) |-> SubSeq(xs, 1, i)]

\* [np.array(x[:i]) for i in range(1, len(x))]
Prefixes(xs) == [i \in 1 .. (Len(xs) - 1) |-> SubSeq(xs, 1, i)]

\* [v for v in pred.flat]
Flat(pred) == [j \in 1 .. Cardinality(DOMAIN pred) |-> pred[j - 1]]

\* range(n)
PyRange(n) == [j \in 1 .. n |-> j - 1]

PlotInit ==
    /\ pc = "plot"
    /\ err = ""
    /\ calls = <<>>
    /\ partnum \in SeqsUpTo(Chars, MaxLen)
    /\ x \in SeqsUpTo(Symbols, MaxLen)
    /\ x_steps = <<>>
    /\ step_preds = <<>>
    /\ plot = <<>>
    /\ BleedIdle
    /\ GraphIdle

\* Lines 33-34
PlotPrefixes ==
    /\ pc = "plot"
    /\ x_steps' = Prefixes(x)
    /\ step_preds' = <<>>
    /\ pc' = "steps"
    /\ UNCHANGED <<err, calls, partnum, x, plot, bleedVars, graphVars>>

\* Lines 35-38: one iteration, i = len(step_preds); the classifier answers
\* with any probability vector over class_names.
PlotStep ==
    /\ pc = "steps"
    /\ Len(step_preds) < Len(x_steps)
    /\ LET i == Len(step_preds)
           x_step == x_steps[i + 1]
           c == IF i < Len(partnum) THEN partnum[i + 1] ELSE ""
       IN  /\ calls' = Append(calls, x_step)
           /\ \E pred \in Vectors(Len(class_names)) :
                step_preds' = Append(step_preds, <<c>> \o Flat(pred))
    /\ UNCHANGED <<pc, err, partnum, x, x_steps, plot, bleedVars, graphVars>>

\* Lines 39-40: the table and the line plot.  pandas has no numeric column to
\* draw when the table has no rows: whether it then raises is the library's.
PlotRender ==
    /\ pc = "steps"
    /\ Len(step_preds) >= Len(x_steps)
    /\ \E outcome \in (IF step_preds = <<>> THEN {"done", "failed"} ELSE {"done"}) :
         /\ pc' = outcome
         /\ err' = IF outcome = "failed" THEN "TypeError" ELSE ""
         /\ plot' = IF outcome = "failed" THEN <<>>
                    ELSE <<[columns |-> <<"char">> \o class_names,
                            rows |-> step_preds,
                            xticks |-> PyRange(Len(x) - 1)]>>
    /\ UNCHANGED <<calls, partnum, x, x_steps, step_preds, bleedVars, graphVars>>

PlotNext ==
    \/ PlotPrefixes
    \/ PlotStep
    \/ PlotRender

SpecPlot == PlotInit /\ [][PlotNext]_vars

----------------------------------------------------------------------------
(* Properties of cross_category_bleeding *)

\* The indices at which v holds its maximum.
MaxIndices(v) == {i \in DOMAIN v : \A j \in DOMAIN v : v[j] <= v[i]}

\* The lowest of them: the maximum is there and nowhere before.
LowestMax(v) ==
    CHOOSE i \in DOMAIN v :
        /\ \A j \in DOMAIN v : v[j] <= v[i]
        /\ \A j \in DOMAIN v : j < i => v[j] < v[i]

Examples == 1 .. Len(x_test)

\* The true and the predicted category of each example of the test set.
TrueCategory == [e \in Examples |-> LowestMax(y_test.data[e])]
PredictedCategory == [e \in Examples |-> LowestMax(model[x_test[e]])]

\* How many of the examples es have true category i (and predicted category
\* j), given the categories t (and p) of the examples.
CountOf(t, es, i) == Cardinality({e \in es : t[e] = i})
CountPairs(t, p, es, i, j) == Cardinality({e \in es : t[e] = i /\ p[e] = j})

IsZero(f) == f.den # 0 /\ f.num = 0
IsOne(f) == f.den # 0 /\ f.num = f.den
FracEq(f, g) == f.den # 0 /\ g.den # 0 /\ f.num * g.den = g.num * f.den
FracAdd(f, g) == [num |-> f.num * g.den + g.num * f.den, den |-> f.den * g.den]

RECURSIVE FracSumTo(_, _)
\* row[0] + ... + row[n-1]
FracSumTo(row, n) ==
    IF n = 0 THEN Zero ELSE FracAdd(FracSumTo(row, n - 1), row[n - 1])

RowSum(row) == FracSumTo(row, Cardinality(DOMAIN row))
AllZero(row) == \A j \in DOMAIN row : IsZero(row[j])

Returned == pc = "done"

\* C1: for a non-empty test set every row of the returned matrix sums to 1
\* or is all-zero, and it is all-zero exactly when no example has the row's
\* index as its true category.
C1_RowsSumToOneOrZero ==
    (Returned /\ Len(x_test) > 0) =>
        LET t == TrueCategory
        IN  \A i \in Range(cat_count) :
                /\ IsOne(RowSum(result[i])) \/ AllZero(result[i])
                /\ AllZero(result[i]) <=> CountOf(t, Examples, i) = 0

\* A returned matrix with an all-zero row and a row that splits over two columns.
C1_Witness ==
    /\ Returned /\ Len(x_test) > 0 /\ cat_count = 2
    /\ AllZero(result[1])
    /\ ~IsZero(result[0][0]) /\ ~IsZero(result[0][1]) /\ IsOne(RowSum(result[0]))

\* C2: entry [i][j] of the returned matrix is the number of examples with true
\* category i and predicted category j divided by the number of examples with
\* true category i when that number is not zero, and 0 otherwise.
C2_EntryIsFraction ==
    Returned =>
        LET t == TrueCategory
            p == PredictedCategory
        IN  \A i \in Range(cat_count), j \in Range(cat_count) :
                IF CountOf(t, Examples, i) # 0
                THEN FracEq(result[i][j],
                            [num |-> CountPairs(t, p, Examples, i, j),
                             den |-> CountOf(t, Examples, i)])
                ELSE IsZero(result[i][j])

\* The pairs (0,0),(0,1),(1,1),(1,1) over 2 categories gave [[0.5, 0.5],[0, 1.0]].
C2_Witness ==
    /\ Returned /\ cat_count = 2 /\ Len(x_test) = 4
    /\ TrueCategory = <<0, 0, 1, 1>>
    /\ PredictedCategory = <<0, 1, 1, 1>>
    /\ FracEq(result[0][0], [num |-> 1, den |-> 2])
    /\ FracEq(result[0][1], [num |-> 1, den |-> 2])
    /\ IsZero(result[1][0])
    /\ IsOne(result[1][1])

EveryCategoryAppears ==
    LET t == TrueCategory
    IN  \A i \in Range(cat_count) : CountOf(t, Examples, i) > 0

AlwaysCorrect == PredictedCategory = TrueCategory

IsIdentity(m, n) ==
    \A i \in Range(n), j \in Range(n) : IF i = j THEN IsOne(m[i][j]) ELSE IsZero(m[i][j])

\* C3: when every true category appears and every example is predicted as its
\* true category, the returned matrix is the identity.
C3_PerfectIsIdentity ==
    (Returned /\ AlwaysCorrect /\ EveryCategoryAppears) => IsIdentity(result, cat_count)

\* A perfect classification over two categories was returned.
C3_Witness ==
    /\ Returned /\ cat_count = 2 /\ EveryCategoryAppears /\ AlwaysCorrect
    /\ IsIdentity(result, 2)

Ended == pc \in {"done", "failed"}
EmptyTestSet == Len(x_test) = 0 /\ y_test.shape[1] = 0

\* C7 as stated: a call with an empty test set ends in a division by zero and
\* returns nothing.
C7_EmptyFailsDividing ==
    (Ended /\ EmptyTestSet) => (pc = "failed" /\ err = "ZeroDivisionError")

\* C7 as amended: a call with an empty test set over C >= 1 categories
\* returns the C x C matrix of zeros, no entry of which is the inf or nan of a
\* division by zero; only with a label array of no columns does the call
\* fail, on the modulo by zero inside np.split.
C7_EmptyReturnsZeros ==
    (Ended /\ EmptyTestSet) =>
        IF y_test.shape[2] >= 1
        THEN /\ pc = "done" /\ err = ""
             /\ DOMAIN result = Range(y_test.shape[2])
             /\ \A i \in Range(y_test.shape[2]) :
                  /\ DOMAIN result[i] = Range(y_test.shape[2])
                  /\ \A j \in Range(y_test.shape[2]) : result[i][j] = Zero
        ELSE pc = "failed" /\ err = "ZeroDivisionError"

\* An empty test set over two categories was handed in and a matrix came back.
C7_Witness ==
    /\ EmptyTestSet /\ y_test.shape[2] = 2 /\ pc = "done"
    /\ result = [i \in Range(2) |-> [j \in Range(2) |-> Zero]]

Tied(v) == Cardinality(MaxIndices(v)) > 1

\* C8: the example an iteration processes is counted in the row of the lowest
\* index at which its label vector holds its maximum and in the column of the
\* lowest index at which its prediction holds its maximum.
C8_TiesGoToLowestIndex ==
    [][(pc = "loop" /\ k' = k + 1) =>
          LET i == LowestMax(y_test.data[k + 1])
              j == LowestMax(preds[k + 1])
          IN  r'[i][j] = r[i][j] + 1]_vars

\* The example just processed had its maximum at both indices, in its labels
\* and in its prediction: it was counted at [0][0].
C8_Witness ==
    /\ pc = "loop" /\ k >= 1 /\ cat_count = 2
    /\ Tied(y_test.data[k]) /\ Tied(preds[k])
    /\ r[0][0] >= 1

Total(m, n) == NpSum(Flatten(m, n))

\* C10: an iteration of the loop adds 1 to exactly one cell of r and leaves
\* the others; so after k examples the cells are naturals whose total is k,
\* and row i totals the number of processed examples of true category i.
C10_OneCellPerExample ==
    /\ [](pc = "loop" =>
            /\ \A i \in Range(cat_count), j \in Range(cat_count) : r[i][j] \in Nat
            /\ Total(r, cat_count) = k
            /\ LET t == [e \in 1 .. k |-> LowestMax(y_test.data[e])]
               IN  \A i \in Range(cat_count) : NpSum(r[i]) = CountOf(t, 1 .. k, i))
    /\ [][(pc = "loop" /\ k' = k + 1) =>
            \E i \in Range(cat_count), j \in Range(cat_count) :
                r' = [r EXCEPT ![i][j] = @ + 1]]_vars

\* Three examples were processed, two of them into the same cell.
C10_Witness ==
    /\ pc = "loop" /\ k = 3 /\ cat_count = 2
    /\ \E i \in Range(2), j \in Range(2) : r[i][j] = 2

----------------------------------------------------------------------------
(* Two calls that differ in batch_size *)

\* C9: a second call on the same classifier, inputs and labels with another
\* batch_size returns the same matrix and makes the same classifier calls.
C9_BatchSizeHasNoEffect ==
    runs # <<>> =>
        /\ runs[1].batch_size # batch_size
        /\ pc # "failed"
        /\ pc = "done" => (result = runs[1].result /\ calls = runs[1].calls)

\* Two calls with different batch sizes both returned a matrix counting
\* several examples.
C9_Witness ==
    /\ runs # <<>> /\ pc = "done" /\ Len(x_test) >= 2 /\ cat_count = 2
    /\ runs[1].batch_size = 32 /\ batch_size = 1
    /\ Len(calls) = 1

----------------------------------------------------------------------------
(* Properties of graphviz_cross_category_diagram *)

Dim == Cardinality(DOMAIN res_matrix)

\* The name of the node of category i.
NodeOf(i) == "C" \o ToString(i)

\* The placeholder label of category i.
Placeholder(i) ==
    CASE i = 0 -> "Category 0"
      [] i = 1 -> "Category 1"
      [] i = 2 -> "Category 2"
      [] i = 3 -> "Category 3"

\* The entry is strictly greater than 0.
GreaterThanZero(e) == e.num * e.den > 0

NodesNamed(name) == {n \in 1 .. Len(graph.nodes) : graph.nodes[n].name = name}
EdgesBetween(tail, head) ==
    {e \in 1 .. Len(graph.edges) :
        graph.edges[e].tail = tail /\ graph.edges[e].head = head}
PositiveEntries ==
    {ij \in Range(Dim) \X Range(Dim) : GreaterThanZero(res_matrix[ij[1]][ij[2]])}

\* C4: the returned graph declares exactly one node per row index, and holds
\* exactly one edge from the node of row i to the node of column j for each
\* entry [i][j] strictly greater than 0 (the diagonal included), and no
\* other edge.
C4_NodesAndEdges ==
    Returned =>
        /\ Len(graph.nodes) = Dim
        /\ \A i \in Range(Dim) : Cardinality(NodesNamed(NodeOf(i))) = 1
        /\ \A i \in Range(Dim), j \in Range(Dim) :
             Cardinality(EdgesBetween(NodeOf(i), NodeOf(j)))
                 = IF GreaterThanZero(res_matrix[i][j]) THEN 1 ELSE 0
        /\ Len(graph.edges) = Cardinality(PositiveEntries)

\* A 2 x 2 matrix with a positive diagonal entry, a positive off-diagonal
\* entry, a zero and a negative entry came back as two nodes, a self-loop and
\* one cross edge.
C4_Witness ==
    /\ Returned /\ Dim = 2
    /\ GreaterThanZero(res_matrix[0][0]) /\ GreaterThanZero(res_matrix[0][1])
    /\ res_matrix[1][0].num = 0 /\ res_matrix[1][1].num < 0
    /\ Len(graph.nodes) = 2
    /\ [e \in 1 .. Len(graph.edges) |-> <<graph.edges[e].tail, graph.edges[e].head>>]
         = << <<"C0", "C0">>, <<"C0", "C1">> >>

\* C5: node i is labelled class_labels[i] when the list has an index i and
\* 'Category i' when it has not; the call does not fail, whatever the list.
C5_LabelOrPlaceholder ==
    /\ pc # "failed" /\ err = ""
    /\ Returned =>
         \A i \in Range(Dim) :
            /\ graph.nodes[i + 1].name = NodeOf(i)
            /\ graph.nodes[i + 1].label =
                 IF i < Len(class_labels) THEN class_labels[i + 1] ELSE Placeholder(i)

\* Two categories and one label: the first node carries the label, the second
\* the placeholder.
C5_Witness ==
    /\ Returned /\ Dim = 2 /\ Len(class_labels) = 1
    /\ graph.nodes[1].label = class_labels[1]
    /\ graph.nodes[2].label = "Category 1"

----------------------------------------------------------------------------
(* Properties of char_by_char_classification_plot *)

\* The number of prefixes to classify: len(x) - 1, and none when x is empty.
StepCount == IF Len(x) <= 1 THEN 0 ELSE Len(x) - 1

\* C6: the classifier is called once per prefix length 1..len(x)-1, in that
\* order, on exactly that prefix, and never on the whole of x; each call
\* records one row, which starts with the character of partnum at the index
\* of the call when partnum has one and with '' otherwise.
C6_OneCallPerProperPrefix ==
    /\ Len(calls) = Len(step_preds)
    /\ Len(calls) <= StepCount
    /\ pc \in {"done", "failed"} => Len(calls) = StepCount
    /\ \A n \in 1 .. Len(calls) :
         /\ calls[n] = [m \in 1 .. n |-> x[m]]
         /\ Len(calls[n]) < Len(x)
         /\ step_preds[n][1] = IF n - 1 < Len(partnum) THEN partnum[n] ELSE ""

\* A sequence of three elements with a part number of one character gave two
\* calls and two rows, the second with the empty placeholder.
C6_Witness ==
    /\ pc = "done" /\ Len(x) = 3 /\ Len(partnum) = 1
    /\ calls = <<SubSeq(x, 1, 1), SubSeq(x, 1, 2)>>
    /\ Len(step_preds) = 2
    /\ step_preds[1][1] = partnum[1] /\ step_preds[2][1] = ""

====
